---- MODULE Spec2Model ----
(***************************************************************************)
(* LanguageMachine (src/languagemain.py): the playback engine thread       *)
(* (PlaybackEngine.play_loop), the control thread (LanguageAppliance's     *)
(* touch handlers) and the learning-object store                           *)
(* (update_learning_object_metadata) they both write through.              *)
(*                                                                         *)
(* Scope: Spec has one session per behaviour (launch_learning is taken     *)
(* once), SessionSpec sessions started one after another; the Random       *)
(* picker, POSIX file semantics (an open file handle follows its           *)
(* inode across os.replace; open(..., 'w') truncates an existing inode).   *)
(* Time is counted in wait_with_progress steps inside a hold; the clock     *)
(* datetime.now() reads is counted in picks.                               *)
(***************************************************************************)
EXTENDS Integers, FiniteSets, Sequences, TLC

\* ---- bounds of the model
NObjs == 2      \* learning objects in the collection
MaxPicks == 2   \* iterations of play_loop explored
H1Len == 2      \* Hold 1 length, in wait_with_progress steps
H2Len == 1      \* Hold 2 length, in wait_with_progress steps
MaxFlagTaps == 1  \* taps on the Flag button explored
MaxStat == 1    \* largest counter of a record's statistics drawn

Objs == 1..NObjs
NoLo == 0       \* None / attribute not set

INSTR == "instruction.mp3"
NATIVE == "native.mp3"

\* LearningObjectV2.CURRENT_SCHEMA_VERSION
CURRENT_SCHEMA_VERSION == 2

\* The containers the authoring tool can have produced (xuefiletool.py
\* save_learning_object writes each clip only when it was selected): the
\* last object of the collection lacks one of the clips, the others have both.
AssetChoices(o) ==
  IF o = NObjs THEN {{NATIVE}, {INSTR}} ELSE {{INSTR, NATIVE}}

\* The language the authoring tool stored in metadata.json (xuefiletool.py:
\* the Language dropdown offers "chinese" and "french").
AuthoredLanguage(o) == IF o = 1 THEN "french" ELSE "chinese"

NoFile == [exists |-> FALSE]

Range(s) == {s[i] : i \in DOMAIN s}

\* calls of a policy explored: two rounds of the longest list
MaxCalls == 2 * NObjs

VARIABLES
  \* ---- PlaybackEngine fields and the engine thread's position
  pc,             \* position of the engine thread in play_loop
  phase,          \* 1 or 2: which half of play_learning_object runs
  elapsed,        \* wait_with_progress: elapsed, in steps
  current_lo,     \* PlaybackEngine.current_lo
  has_instr,      \* play_learning_object: has_instr_audio
  paused, stopped, skip_requested,
  mode,           \* PlaybackEngine.mode
  playing,        \* the clip loaded into pygame.mixer.music ("none": no clip)
  exc,            \* exception that ended the engine thread ("none" if none)
  picks,          \* number of picks made by play_loop
  picked,         \* per record: the picks the Sequential policy made of it
                  \* in the running session
  picker_function, \* PlaybackEngine.picker_function: the policy's name
  index,          \* SequentialPicker.index of that policy
  \* ---- LearningObjectV2 objects in memory
  learning_objects, \* app.learning_objects = engine.learning_objects (a list)
  times_played,   \* stats["times_played"] of each object
  last_played,    \* stats["last_played"]: the time of the last pick (0: None)
  times_incorrect, \* stats["times_incorrect"] of each object
  times_correct,  \* stats["times_correct"] of each object
  flagged,
  \* ---- file system: <path> and <path>.temp of each learning object
  disk, tmp,
  temp_dir,       \* the files of the temp folder: <<pick, clip>> (uuid names)
  wr,             \* per thread: the write handle of update_learning_object_metadata
  \* ---- LanguageAppliance (control thread)
  pc_c,           \* position of the control thread
  app_state,      \* LanguageAppliance.state
  app_lo,         \* LanguageAppliance.current_lo
  app_lang,       \* LanguageAppliance.current_lang
  app_progress,   \* LanguageAppliance.current_progress, in steps of the hold
                  \* that remain (the fraction times the hold's length)
  \* ---- history variables
  skipSeen,       \* a poll of the current item found skip_requested set
  skipEpoch,      \* value of picks when the pending skip() was issued
  stopInHold1,    \* stop() was invoked while the engine was in Hold 1
  latePlay,       \* music.play() was called after such a stop()
  toggle,         \* the object whose flag the last toggle flipped (NoLo: none)
  started_by,     \* the submenu button that started the session ("none")
  \* ---- SettingsManager
  settings,       \* SettingsManager.data
  settings_file,  \* the content of settings.json
  flag_taps       \* number of taps on the Flag button that flipped a flag

engineVars ==
  <<pc, phase, elapsed, current_lo, has_instr, mode, playing, exc, picks,
    picker_function, index, picked>>
cmdVars == <<paused, stopped, skip_requested>>
memVars == <<learning_objects, times_played, last_played, times_incorrect, times_correct, flagged>>
fsVars == <<disk, tmp, wr>>
appVars == <<pc_c, app_state, app_lo, app_lang, app_progress>>
histVars == <<skipSeen, skipEpoch, stopInHold1, latePlay, toggle>>
setVars == <<settings, settings_file>>
sessVars == <<settings, settings_file, started_by>>
vars == <<engineVars, cmdVars, memVars, fsVars, appVars, histVars, sessVars, flag_taps, temp_dir>>

\* ---- containers ----------------------------------------------------------

\* A container as written by the authoring tool: metadata.json plus clips.
\* metadata.json of a container without one, or of no container.
NoMeta == [schema |-> 0, tp |-> 0, lp |-> 0, fl |-> FALSE, lang |-> "absent"]

NewContainer(ents, lang) ==
  [exists |-> TRUE, ents |-> ents, hasMeta |-> TRUE,
   md |-> [schema |-> CURRENT_SCHEMA_VERSION, tp |-> 0, lp |-> 0,
           fl |-> FALSE, lang |-> lang],
   closed |-> TRUE, owner |-> "none", mixed |-> FALSE]

\* zipfile.ZipFile(temp_zip_path, 'w'): an empty archive being written by t.
EmptyZip(t) ==
  [exists |-> TRUE, ents |-> {}, hasMeta |-> FALSE, md |-> NoMeta,
   closed |-> FALSE, owner |-> t, mixed |-> FALSE]

\* zipfile.ZipFile(path, 'r') succeeds and metadata.json can be read.
Readable(f) == f.exists /\ f.closed /\ f.hasMeta /\ ~f.mixed

\* Bytes of two writers interleaved in one inode: no container at all.
Garbled ==
  [exists |-> TRUE, ents |-> {}, hasMeta |-> FALSE, md |-> NoMeta,
   closed |-> FALSE, owner |-> "none", mixed |-> TRUE]

Threads == {"E", "C"}
NoHandle == [o |-> NoLo, loc |-> "none", src |-> {}]
\* The handle is closed; zip_path (of object o) is still a local.
Closed(o) == [o |-> o, loc |-> "none", src |-> {}]

\* new_zip.writestr(item, old_zip.read(item.filename)) for every entry but
\* metadata.json, by thread t into file f.
PutEnts(f, t, ents) ==
  IF f.owner = t /\ ~f.mixed THEN [f EXCEPT !.ents = ents] ELSE Garbled

\* new_zip.writestr('metadata.json', json.dumps(lo.to_dict())) and the close
\* of new_zip (central directory) at the end of the with block.
PutMeta(f, t, md) ==
  IF f.owner = t /\ ~f.mixed
  THEN [f EXCEPT !.hasMeta = TRUE, !.md = md, !.closed = TRUE,
                 !.owner = "none"]
  ELSE Garbled

\* Leaving the with block on an exception: new_zip is closed as it is.
PutClose(f, t) ==
  IF f.owner = t /\ ~f.mixed
  THEN [f EXCEPT !.closed = TRUE, !.owner = "none"]
  ELSE Garbled

\* A write of thread t through its handle reaches the inode the handle was
\* opened on, wherever that inode is linked now: inTmp is the outcome if it
\* is still linked at zip_path + ".temp", inPath if it is now at zip_path.
FsWrite(t, inTmp, inPath) ==
  LET h == wr[t] IN
  CASE h.loc = "tmp"  -> /\ tmp' = [tmp EXCEPT ![h.o] = inTmp]
                         /\ UNCHANGED disk
    [] h.loc = "path" -> /\ disk' = [disk EXCEPT ![h.o] = inPath]
                         /\ UNCHANGED tmp
    [] OTHER          -> UNCHANGED <<disk, tmp>>

\* LearningObjectV2.to_dict (lines 53-62) of object o as it is in memory:
\* schema_version, english, pinyin, native, tags, stats, flagged; there is
\* no "language" key.
to_dict(o) ==
  [schema |-> CURRENT_SCHEMA_VERSION, tp |-> times_played[o],
   lp |-> last_played[o], fl |-> flagged[o], lang |-> "absent"]

\* LearningObjectV2.from_dict (lines 64-77): stats and flagged are read;
\* schema_version and language are not: the constructor sets them to
\* CURRENT_SCHEMA_VERSION and to its default "chinese".
from_dict(md) ==
  [tp |-> md.tp, lp |-> md.lp, fl |-> md.fl,
   schema_version |-> CURRENT_SCHEMA_VERSION, language |-> "chinese"]

\* ---- update_learning_object_metadata(zip_path, lo), step by step --------

\* lines 88-90: open zip_path for reading, zip_path + ".temp" for writing.
UpdOpenOk(t, o) ==
  /\ Readable(disk[o])
  /\ tmp' = [tmp EXCEPT ![o] = EmptyZip(t)]
  /\ wr' = [wr EXCEPT ![t] = [o |-> o, loc |-> "tmp", src |-> disk[o].ents]]
  /\ UNCHANGED disk

\* zipfile.ZipFile(zip_path, 'r') raises BadZipFile: nothing was opened.
UpdOpenBad(t, o) ==
  /\ ~Readable(disk[o])
  /\ UNCHANGED fsVars

\* lines 91-93: copy every entry but metadata.json.
UpdCopyOk(t) ==
  /\ FsWrite(t, PutEnts(tmp[wr[t].o], t, wr[t].src),
                PutEnts(disk[wr[t].o], t, wr[t].src))
  /\ UNCHANGED wr

\* a write fails (OSError): the with blocks close both archives.
UpdCopyFail(t) ==
  /\ FsWrite(t, PutClose(tmp[wr[t].o], t), PutClose(disk[wr[t].o], t))
  /\ wr' = [wr EXCEPT ![t] = NoHandle]

\* lines 95-96: serialise lo as it is in memory now, write it, close.
UpdMeta(t) ==
  /\ FsWrite(t, PutMeta(tmp[wr[t].o], t, to_dict(wr[t].o)),
                PutMeta(disk[wr[t].o], t, to_dict(wr[t].o)))
  /\ wr' = [wr EXCEPT ![t] = Closed(@.o)]

\* What os.replace does to a handle that another thread holds on object o.
Relinked(h, o) ==
  IF h.o # o THEN h
  ELSE IF h.loc = "tmp" THEN [h EXCEPT !.loc = "path"]
  ELSE IF h.loc = "path" THEN [h EXCEPT !.loc = "gone"]
  ELSE h

\* line 97: os.replace(temp_zip_path, zip_path).
UpdReplaceOk(t) ==
  LET o == wr[t].o IN
  /\ tmp[o].exists
  /\ disk' = [disk EXCEPT ![o] = tmp[o]]
  /\ tmp' = [tmp EXCEPT ![o] = NoFile]
  /\ wr' = [u \in Threads |-> IF u = t THEN NoHandle ELSE Relinked(wr[u], o)]

\* line 97 when the other thread has already renamed the shared temp file:
\* FileNotFoundError.
UpdReplaceMissing(t) ==
  /\ ~tmp[wr[t].o].exists
  /\ wr' = [wr EXCEPT ![t] = NoHandle]
  /\ UNCHANGED <<disk, tmp>>

\* load_learning_object + LearningObjectV2.from_dict: the fields read back.
Load(o) ==
  IF Readable(disk[o])
  THEN [ok |-> TRUE, tp |-> from_dict(disk[o].md).tp,
        lp |-> from_dict(disk[o].md).lp, fl |-> from_dict(disk[o].md).fl]
  ELSE [ok |-> FALSE, tp |-> 0, lp |-> 0, fl |-> FALSE]

\* os.listdir("learning_objects"), the .xue files, as a list.
RECURSIVE Listing(_)
Listing(n) ==
  IF n = 0 THEN <<>>
  ELSE IF disk[n].exists THEN Append(Listing(n - 1), n) ELSE Listing(n - 1)

\* The objects of the collection the engine picks from.
Collection == {learning_objects[i] : i \in DOMAIN learning_objects}

\* ---- PlaybackEngine (engine thread) ---------------------------------------
\* Consecutive steps of the engine thread that touch nothing the control
\* thread reads or writes are taken together with the next step that does.

\* the thread taken for ended as soon as stop() has been called.
TerminatedOrStopping == pc \in {"done", "died"} \/ stopped

\* play_loop has returned, or an exception has ended it: join() returns.
Terminated == pc \in {"done", "died"}
HoldPcs == {"h_chk", "h_spin", "h_sleep", "h_step"}
InHold1 == pc \in HoldPcs /\ phase = 1

\* play_learning_object lines 299-311: the clip and the label of each
\* phase ("none": no clip, the phase plays nothing).

\* the mode test of line 300 lost: the native clip first in every mode.
first_audio_native(instr) == NATIVE

first_audio(instr) ==
  IF mode = "chinese_first" THEN NATIVE
  ELSE IF instr THEN INSTR ELSE "none"

second_audio(instr) ==
  IF mode = "chinese_first" THEN (IF instr THEN INSTR ELSE "none")
  ELSE NATIVE

first_lang == IF mode = "chinese_first" THEN "native" ELSE "english"
second_lang == IF mode = "chinese_first" THEN "english" ELSE "native"

PhaseAudio(ph, instr) == IF ph = 1 THEN first_audio(instr) ELSE second_audio(instr)

\* self.current_lang as set at lines 317 and 347, read at line 285.
PhaseLang(ph) == IF ph = 1 THEN first_lang ELSE second_lang

\* the tests of lines 320 and 352 left out.
HasAudioAlways(ph, instr) == TRUE

\* lines 320 and 352: if first_audio / if second_audio.
HasAudio(ph, instr) == PhaseAudio(ph, instr) # "none"

\* SettingsManager.__init__ lines 179-185: the defaults.
defaults ==
  [picker_mode |-> "Random", instruction_delay |-> 6, quiz_interval |-> 10,
   show_native |-> TRUE]

\* settings.data.get("seconds_per_char", 1.0), line 336: no screen changes it.
seconds_per_char == 1

\* len(lo.native.strip()), line 337: the characters of the native text.
NativeLen(o) == IF o = 1 THEN 2 ELSE 3

\* play_learning_object lines 333-338 and 365: the total_duration passed to
\* wait_with_progress, in seconds.
total_duration(ph) ==
  IF ph = 1
  THEN IF mode = "pinyin"
       THEN settings.instruction_delay
       ELSE LET delay == NativeLen(current_lo) * seconds_per_char
            IN  IF delay > 2 THEN delay ELSE 2
  ELSE settings.quiz_interval

\* wait_with_progress(total_duration, ...): the hold's length in steps (a
\* step of the model stands for total_duration / (0.05 * length) passes).
HoldLen(ph) == IF ph = 1 THEN H1Len ELSE H2Len

\* An uncaught exception leaves play_loop: the thread ends.
Die(e) ==
  /\ pc' = "died"
  /\ exc' = e
  /\ skipSeen' = FALSE /\ skipEpoch' = 0

\* play_loop line 237, loop left.
LoopExit ==
  /\ pc = "loop"
  /\ stopped
  /\ pc' = "done"
  /\ skipSeen' = FALSE /\ skipEpoch' = 0
  /\ UNCHANGED <<phase, elapsed, current_lo, has_instr, mode, playing, exc, picks, picker_function, index, picked>>
  /\ UNCHANGED <<stopInHold1, latePlay, toggle, sessVars, flag_taps, temp_dir>>
  /\ UNCHANGED <<cmdVars, memVars, fsVars, appVars>>

\* play_loop lines 249-250: paused between items, time.sleep(0.1).
LoopSleep ==
  /\ pc = "loop"
  /\ ~stopped /\ paused
  /\ UNCHANGED vars

\* record_play taking a play off the counter.
record_play_back(o) == [times_played EXCEPT ![o] = @ - 1]

\* record_play counting the play twice.
record_play_twice(o) == [times_played EXCEPT ![o] = @ + 2]

\* LearningObjectV2.record_play (lines 50-52), the counter.
record_play(o) == [times_played EXCEPT ![o] = @ + 1]

\* random_picker lines 152-153: random.choice(learning_objects): the records
\* it can return.
random_picker(los) == {los[i] : i \in DOMAIN los}

\* lo.stats of every record, the two fields that weighted_picker reads.
stats ==
  [o \in Objs |-> [times_incorrect |-> times_incorrect[o],
                   times_played |-> times_played[o]]]

\* weighted_picker line 159 without times_incorrect.
weight_played_only(st, o) == <<1, st[o].times_played + 1>>

\* weighted_picker line 159: weight = (times_incorrect + 1) /
\* (times_played + 1), as the fraction <<numerator, denominator>>.
weight(st, o) == <<st[o].times_incorrect + 1, st[o].times_played + 1>>

\* The product of the denominators of the weights of los[1..n] but los[skip].
RECURSIVE DenProd(_, _, _, _)
DenProd(st, los, n, skip) ==
  IF n = 0 THEN 1
  ELSE (IF n = skip THEN 1 ELSE weight(st, los[n])[2])
         * DenProd(st, los, n - 1, skip)

\* The weight of los[i] over the common denominator DenProd(st, los, Len(los), 0).
Scaled(st, los, i) == weight(st, los[i])[1] * DenProd(st, los, Len(los), i)

\* sum(weights) leaving the last weight out.
RECURSIVE sum_weights_short(_, _, _)
sum_weights_short(st, los, n) ==
  IF n <= 1 THEN 0 ELSE Scaled(st, los, n - 1) + sum_weights_short(st, los, n - 1)

\* weighted_picker line 161: total = sum(weights), over that denominator.
RECURSIVE sum_weights(_, _, _)
sum_weights(st, los, n) ==
  IF n = 0 THEN 0 ELSE Scaled(st, los, n) + sum_weights(st, los, n - 1)

\* weighted_picker line 162: normalized = [w / total for w in weights], the
\* fraction <<numerator, denominator>> of los[i].
normalized(st, los, i) == <<Scaled(st, los, i), sum_weights(st, los, Len(los))>>

\* random.choices drawing only records whose weight is above an equal share.
weighted_picker_above_share(los) ==
  {los[i] : i \in {j \in DOMAIN los :
      normalized(stats, los, j)[1] * Len(los) > normalized(stats, los, j)[2]}}

\* weighted_picker line 163: random.choices(learning_objects,
\* weights=normalized, k=1)[0]: the records drawn with a positive weight.
weighted_picker(los) ==
  {los[i] : i \in {j \in DOMAIN los : normalized(stats, los, j)[1] > 0}}

\* SequentialPicker.__call__ line 171 reading the head of the list whatever
\* the cursor says.
SequentialPicker_first(los) == {los[1]}

\* SequentialPicker.__call__ line 171: result = self.learning_objects[self.index]
\* (the list of the model is indexed from 1).
SequentialPicker(los) == {los[index + 1]}

\* SequentialPicker.__call__ line 172 keeping the cursor where it is.
SequentialAdvanceStuck(los) == index

\* SequentialPicker.__call__ line 172: self.index = (self.index + 1) % len.
SequentialAdvance(los) == (index + 1) % Len(los)

\* play_loop line 239: self.picker_function(self.learning_objects).
Picked(los) ==
  CASE picker_function = "Weighted" -> weighted_picker(los)
    [] picker_function = "Sequential" -> SequentialPicker(los)
    [] OTHER -> random_picker(los)

\* play_loop lines 237-240: the picker, record_play.
LoopPick ==
  /\ pc = "loop"
  /\ ~stopped /\ ~paused
  /\ picks < MaxPicks
  /\ Collection # {}
  /\ \E o \in Picked(learning_objects) :
       /\ current_lo' = o
       /\ times_played' = record_play(o)
       /\ last_played' = [last_played EXCEPT ![o] = picks + 1]
       /\ picked' = IF picker_function = "Sequential"
                    THEN [picked EXCEPT ![o] = @ + 1] ELSE picked
  /\ index' = IF picker_function = "Sequential"
              THEN SequentialAdvance(learning_objects) ELSE index
  /\ UNCHANGED <<picker_function, times_incorrect, times_correct>>
  /\ picks' = picks + 1
  /\ pc' = "clear"
  /\ phase' = 1 /\ elapsed' = 0 /\ has_instr' = FALSE
  /\ UNCHANGED <<mode, playing, exc, learning_objects, flagged>>
  /\ UNCHANGED <<cmdVars, fsVars, appVars, histVars, sessVars, flag_taps, temp_dir>>

\* play_loop line 239 on an empty list: random.choice, random.choices and
\* learning_objects[0] raise IndexError, which nothing catches.
LoopPickEmpty ==
  /\ pc = "loop"
  /\ ~stopped /\ ~paused
  /\ Collection = {}
  /\ Die("IndexError")
  /\ UNCHANGED <<phase, elapsed, current_lo, has_instr, mode, playing, picks, picker_function, index, picked>>
  /\ UNCHANGED <<stopInHold1, latePlay, toggle, sessVars, flag_taps, temp_dir>>
  /\ UNCHANGED <<cmdVars, memVars, fsVars, appVars>>

\* line 245 left out: the skip flag survives into the next item.
ClearSkipForgotten ==
  /\ pc = "clear"
  /\ pc' = "extract"
  /\ skipSeen' = FALSE
  /\ UNCHANGED <<phase, elapsed, current_lo, has_instr, mode, playing, exc, picks, picker_function, index, picked>>
  /\ UNCHANGED <<cmdVars, skipEpoch, stopInHold1, latePlay, toggle, sessVars, flag_taps, temp_dir>>
  /\ UNCHANGED <<memVars, fsVars, appVars>>

\* play_loop line 245: self.skip_requested = False.
ClearSkip ==
  /\ pc = "clear"
  /\ skip_requested' = FALSE
  /\ skipSeen' = FALSE /\ skipEpoch' = 0
  /\ pc' = "extract"
  /\ UNCHANGED <<phase, elapsed, current_lo, has_instr, mode, playing, exc, picks, picker_function, index, picked>>
  /\ UNCHANGED <<paused, stopped, stopInHold1, latePlay, toggle, sessVars, flag_taps, temp_dir>>
  /\ UNCHANGED <<memVars, fsVars, appVars>>

\* lines 315-322 and 346-354: phase start: music.load and music.play if
\* there is a clip for the phase, straight to the hold if there is none.
PhaseStart(ph, instr) ==
  /\ phase' = ph
  /\ elapsed' = 0
  /\ IF HasAudio(ph, instr)
     THEN /\ pc' = "ph_busy"
          /\ playing' = PhaseAudio(ph, instr)
          /\ latePlay' = (latePlay \/ stopInHold1)
     ELSE /\ pc' = "h_chk"
          /\ UNCHANGED <<playing, latePlay>>

\* extract_audio_from_zip lines 100-107: the file of the folder that one
\* extraction of this item creates. open(full_path, 'wb') comes before
\* zipf.read(filename): the file is created (empty) when the entry is missing.
extract_audio_from_zip(clip) == {<<picks, clip>>}

\* play_learning_object lines 290-322: extract instruction.mp3 (optional,
\* KeyError caught) and native.mp3 (KeyError not caught, outside the try),
\* then start Phase 1.
Extract ==
  /\ pc = "extract"
  /\ LET f == disk[current_lo] IN
       IF ~Readable(f)
       THEN Die("BadZipFile")
            /\ UNCHANGED <<has_instr, phase, elapsed, playing, latePlay>>
            /\ UNCHANGED temp_dir
       ELSE IF NATIVE \notin f.ents
       THEN Die("KeyError")
            /\ UNCHANGED <<has_instr, phase, elapsed, playing, latePlay>>
            /\ temp_dir' = temp_dir \cup extract_audio_from_zip(INSTR)
                                    \cup extract_audio_from_zip(NATIVE)
       ELSE /\ has_instr' = (INSTR \in f.ents)
            /\ PhaseStart(1, INSTR \in f.ents)
            /\ temp_dir' = temp_dir \cup extract_audio_from_zip(INSTR)
                                    \cup extract_audio_from_zip(NATIVE)
            /\ UNCHANGED <<exc, skipSeen, skipEpoch>>
  /\ UNCHANGED <<current_lo, mode, picks, picker_function, index, picked>>
  /\ UNCHANGED <<stopInHold1, toggle, sessVars, flag_taps>>
  /\ UNCHANGED <<cmdVars, memVars, fsVars, appVars>>

\* lines 323-326 and 355-358: if self.skip_requested or self.stopped.
PollReturns == skip_requested \/ stopped

\* lines 323-331 and 355-363: while music.get_busy(): poll skip and stop,
\* enter the pause loop, else sleep and poll again.
PhasePoll ==
  /\ pc = "ph_busy"
  /\ \E busy \in BOOLEAN :
       IF ~busy THEN pc' = "h_chk" /\ UNCHANGED skipSeen
       ELSE IF PollReturns
       THEN pc' = "finally" /\ skipSeen' = (skipSeen \/ skip_requested)
       ELSE IF paused
       THEN pc' = "ph_spin" /\ UNCHANGED skipSeen
       ELSE UNCHANGED <<pc, skipSeen>>
  /\ UNCHANGED <<phase, elapsed, current_lo, has_instr, mode, playing, exc, picks, picker_function, index, picked>>
  /\ UNCHANGED <<skipEpoch, stopInHold1, latePlay, toggle, sessVars, flag_taps, temp_dir>>
  /\ UNCHANGED <<cmdVars, memVars, fsVars, appVars>>

\* lines 327-329 and 359-361, inside `while self.paused`: music.pause(),
\* time.sleep(0.1).
PhaseSpin ==
  /\ pc = "ph_spin"
  /\ pc' = "ph_sleep"
  /\ UNCHANGED <<phase, elapsed, current_lo, has_instr, mode, playing, exc, picks, picker_function, index, picked>>
  /\ UNCHANGED <<cmdVars, memVars, fsVars, appVars, histVars, sessVars, flag_taps, temp_dir>>

\* the loop test of `while self.paused`; music.unpause() and sleep when it
\* is left.
PhaseSpinTest ==
  /\ pc = "ph_sleep"
  /\ pc' = IF paused THEN "ph_spin" ELSE "ph_busy"
  /\ UNCHANGED <<phase, elapsed, current_lo, has_instr, mode, playing, exc, picks, picker_function, index, picked>>
  /\ UNCHANGED <<cmdVars, memVars, fsVars, appVars, histVars, sessVars, flag_taps, temp_dir>>

\* line 343 testing skip_requested alone.
GateReturnsSkipOnly == skip_requested

\* line 343: if self.skip_requested or self.stopped: return.
GateReturns == skip_requested \/ stopped

\* wait_with_progress has returned (its result is not used): line 343
\* after Hold 1, then Phase 2; the finally block after Hold 2.
AfterHold ==
  IF phase = 2 \/ GateReturns
  THEN /\ pc' = "finally"
       /\ skipSeen' = (skipSeen \/ skip_requested)
       /\ UNCHANGED <<phase, elapsed, playing, latePlay>>
  ELSE /\ PhaseStart(2, has_instr)
       /\ UNCHANGED skipSeen

\* LanguageAppliance.on_new_learning_object (lines 785-790), run by the
\* engine thread as gui_callback.
on_new_learning_object(lo, progress, m, lang) ==
  /\ app_lo' = lo
  /\ app_progress' = progress
  /\ app_state' = m
  /\ app_lang' = lang

PhaseName(ph) == IF ph = 1 THEN "learning" ELSE "reviewing"

\* elapsed is a binary float, the sum of additions of step = 0.05 (lines
\* 268, 282). After 20 * total additions the sum is still below total for
\* these durations in seconds, and not below it for the others of 1..60.
FloatSumBelow(total) ==
  total \in {3, 4, 5, 6, 7, 8, 9, 38, 39, 40, 41, 42, 43, 44, 45, 46, 47, 48, 49, 50, 51, 52, 53, 54, 55, 56, 57, 58, 59, 60}

\* wait_with_progress line 270: while elapsed < total_duration, for a hold
\* of len steps: when the steps make up the duration, the float sum decides.
WaitLoopTest(e, len, total) == e < len \/ (e = len /\ FloatSumBelow(total))

\* line 271 testing stopped alone.
WaitReturnsStopOnly == stopped

\* wait_with_progress lines 270-273: if self.skip_requested or self.stopped.
WaitReturns == skip_requested \/ stopped

\* wait_with_progress lines 270-279: loop test, poll of skip and stop, test
\* of `while self.paused`; when not paused, on to the sleep of line 281.
wait_with_progress ==
  /\ pc = "h_chk"
  /\ IF ~WaitLoopTest(elapsed, HoldLen(phase), total_duration(phase))
        \/ WaitReturns
     THEN AfterHold
     ELSE /\ pc' = IF paused THEN "h_spin" ELSE "h_step"
          /\ UNCHANGED <<phase, elapsed, playing, skipSeen, latePlay>>
  /\ UNCHANGED <<current_lo, has_instr, mode, exc, picks, picker_function, index, picked>>
  /\ UNCHANGED <<skipEpoch, stopInHold1, toggle, sessVars, flag_taps, temp_dir>>
  /\ UNCHANGED <<cmdVars, memVars, fsVars, appVars>>

\* the pause loop counting its sleeps as time of the hold.
WaitSpinCounts ==
  /\ pc = "h_spin"
  /\ pc' = "h_sleep"
  /\ elapsed' = elapsed + 1
  /\ UNCHANGED <<phase, current_lo, has_instr, mode, playing, exc, picks, picker_function, index, picked>>
  /\ UNCHANGED <<cmdVars, memVars, fsVars, appVars, histVars, sessVars, flag_taps, temp_dir>>

\* wait_with_progress lines 275-277, inside `while self.paused`:
\* music.pause(), time.sleep(0.1).
WaitSpin ==
  /\ pc = "h_spin"
  /\ pc' = "h_sleep"
  /\ UNCHANGED <<phase, elapsed, current_lo, has_instr, mode, playing, exc, picks, picker_function, index, picked>>
  /\ UNCHANGED <<cmdVars, memVars, fsVars, appVars, histVars, sessVars, flag_taps, temp_dir>>

\* the loop test of `while self.paused` (line 275); when it is left,
\* music.unpause() and on to the sleep of line 281.
WaitSpinTest ==
  /\ pc = "h_sleep"
  /\ pc' = IF paused THEN "h_spin" ELSE "h_step"
  /\ UNCHANGED <<phase, elapsed, current_lo, has_instr, mode, playing, exc, picks, picker_function, index, picked>>
  /\ UNCHANGED <<cmdVars, memVars, fsVars, appVars, histVars, sessVars, flag_taps, temp_dir>>

\* wait_with_progress line 284: progress = 1.0 - (elapsed / total_duration),
\* as the number of steps that remain of total (the fraction times total).
Progress(e, total) == total - e

\* wait_with_progress lines 281-285: the sleep of one step is over: count
\* it and report the progress. Nothing is tested here: a pause() that came
\* during the sleep is found at the next pass of the loop.
HoldStep ==
  /\ pc = "h_step"
  /\ elapsed' = elapsed + 1
  /\ on_new_learning_object(current_lo, Progress(elapsed + 1, HoldLen(phase)),
                            PhaseName(phase), PhaseLang(phase))
  /\ pc' = "h_chk"
  /\ UNCHANGED <<phase, current_lo, has_instr, mode, playing, exc, picks, picker_function, index, picked>>
  /\ UNCHANGED <<cmdVars, memVars, fsVars, pc_c, histVars, sessVars, flag_taps, temp_dir>>

\* clean_temp_folder without its os.remove calls.
clean_temp_folder_nothing(exclude_files) == temp_dir

\* clean_temp_folder lines 118-137: every .mp3 and .wav file of the folder
\* that is not in exclude_files is removed; what is left of the folder.
clean_temp_folder(exclude_files) == temp_dir \cap exclude_files

\* lines 377-379: keep_files = [native_path], and instr_path when it is set.
keep_files ==
  {<<picks, NATIVE>>} \cup (IF has_instr THEN {<<picks, INSTR>>} ELSE {})

\* lines 369-380: finally: music.stop(), music.load(os.devnull),
\* clean_temp_folder; the locals of play_learning_object are gone when it
\* returns.
Finally ==
  /\ pc = "finally"
  /\ pc' = "wb_open"
  /\ playing' = "none"
  /\ temp_dir' = clean_temp_folder(keep_files)
  /\ phase' = 1 /\ elapsed' = 0 /\ has_instr' = FALSE
  /\ UNCHANGED <<current_lo, mode, exc, picks, picker_function, index, picked>>
  /\ UNCHANGED <<cmdVars, memVars, fsVars, appVars, histVars, sessVars, flag_taps>>

\* ---- play_loop line 248: the write-back --------------------------------

EngineFrame ==
  /\ UNCHANGED <<phase, elapsed, current_lo, has_instr, mode, playing, picks, picker_function, index, picked>>
  /\ UNCHANGED <<cmdVars, memVars, appVars>>
  /\ UNCHANGED <<stopInHold1, latePlay, toggle, sessVars, flag_taps, temp_dir>>

Continue(next) ==
  /\ pc' = next
  /\ UNCHANGED <<exc, skipSeen, skipEpoch>>

WriteBackOpen ==
  /\ pc = "wb_open"
  /\ \/ UpdOpenOk("E", current_lo) /\ Continue("wb_copy")
     \/ UpdOpenBad("E", current_lo) /\ Die("BadZipFile")
  /\ EngineFrame

WriteBackCopy ==
  /\ pc = "wb_copy"
  /\ \/ UpdCopyOk("E") /\ Continue("wb_meta")
     \/ UpdCopyFail("E") /\ Die("OSError")
  /\ EngineFrame

WriteBackMeta ==
  /\ pc = "wb_meta"
  /\ UpdMeta("E")
  /\ Continue("wb_replace")
  /\ EngineFrame

WriteBackReplace ==
  /\ pc = "wb_replace"
  /\ \/ UpdReplaceOk("E") /\ Continue("loop")
     \/ UpdReplaceMissing("E") /\ Die("FileNotFoundError")
  /\ EngineFrame

Engine ==
  \/ LoopExit \/ LoopSleep \/ LoopPick \/ LoopPickEmpty \/ ClearSkip \/ Extract
  \/ PhasePoll \/ PhaseSpin \/ PhaseSpinTest
  \/ wait_with_progress \/ WaitSpin \/ WaitSpinTest \/ HoldStep
  \/ Finally
  \/ WriteBackOpen \/ WriteBackCopy \/ WriteBackMeta \/ WriteBackReplace

\* ---- LanguageAppliance (control thread) -----------------------------------

Modes == {"normal", "chinese_first"}

\* cycle_picker line 201: modes = ["Random", "Weighted", "Sequential"].
PickerModes == <<"Random", "Weighted", "Sequential">>

\* get_picker lines 778-783: the policy named by settings.data["picker_mode"],
\* random_picker for any other name.
get_picker ==
  IF settings.picker_mode \in {"Random", "Weighted", "Sequential"}
  THEN settings.picker_mode ELSE "Random"

\* launch_learning constructing the engine with the cursor of the last one.
SequentialPicker_kept == index

\* SequentialPicker.__init__ line 168: self.index = 0, in the policy object
\* that get_picker constructs for the new engine.
SequentialPicker_init == 0
InSession == app_state \in {"learning", "reviewing"}

\* start_normal_mode / start_chinese_first_mode (lines 537-554) and
\* launch_learning (lines 581-596): load every container, construct the
\* engine, start its thread.
launch_learning(m) ==
  /\ pc_c = "ready"
  /\ app_state = "main_menu"
  /\ pc = "idle"
  /\ \A o \in Objs : disk[o].exists => Load(o).ok
  /\ learning_objects' = Listing(NObjs)
  /\ times_played' = [o \in Objs |-> Load(o).tp]
  /\ last_played' = [o \in Objs |-> Load(o).lp]
  /\ flagged' = [o \in Objs |-> Load(o).fl]
  /\ mode' = m
  /\ paused' = FALSE /\ stopped' = FALSE /\ skip_requested' = FALSE
  /\ current_lo' = NoLo
  /\ pc' = "loop"
  /\ picker_function' = get_picker /\ index' = SequentialPicker_init
  /\ picked' = [o \in Objs |-> 0]
  /\ UNCHANGED <<times_incorrect, times_correct>>
  /\ app_state' = "learning"
  /\ UNCHANGED <<phase, elapsed, has_instr, playing, exc, picks>>
  /\ UNCHANGED <<fsVars, pc_c, app_lo, app_lang, app_progress, histVars, setVars, flag_taps, temp_dir>>

ControlFrame ==
  /\ UNCHANGED <<engineVars, memVars, fsVars, app_state, app_lo, app_lang, app_progress>>

\* handle_touch lines 755-759: the Pause / Resume button.
PauseResume ==
  /\ pc_c = "ready" /\ InSession
  /\ paused' = ~paused
  /\ UNCHANGED <<stopped, skip_requested, pc_c, histVars, sessVars, flag_taps, temp_dir>>
  /\ ControlFrame

\* handle_touch lines 760-761: the Skip button, PlaybackEngine.skip.
Skip ==
  /\ pc_c = "ready" /\ InSession
  /\ skip_requested' = TRUE
  /\ skipEpoch' = IF skip_requested THEN skipEpoch ELSE picks
  /\ UNCHANGED <<paused, stopped, pc_c>>
  /\ UNCHANGED <<skipSeen, stopInHold1, latePlay, toggle, sessVars, flag_taps, temp_dir>>
  /\ ControlFrame

\* handle_touch lines 762-765: the Exit button: resume(), stop(),
\* clean_temp_folder.
ExitPress ==
  /\ pc_c = "ready" /\ InSession
  /\ paused' = FALSE
  /\ stopped' = TRUE
  /\ stopInHold1' = (stopInHold1 \/ InHold1)
  \* line 765: f not in "temp" is a substring test that no path of the
  \* folder passes: every file is removed
  /\ temp_dir' = clean_temp_folder({})
  /\ pc_c' = "exit_join"
  /\ UNCHANGED <<skip_requested, skipSeen, skipEpoch, latePlay, toggle, sessVars, flag_taps>>
  /\ ControlFrame

\* the Exit handler going back to the menu without play_thread.join().
ExitNoJoin ==
  /\ pc_c = "exit_join"
  /\ app_state' = "main_menu"
  /\ pc_c' = "ready"
  /\ UNCHANGED <<engineVars, cmdVars, memVars, fsVars, app_lo, app_lang, app_progress, histVars, sessVars, flag_taps, temp_dir>>

\* handle_touch lines 766-768: play_thread.join(), state = "main_menu".
ExitJoin ==
  /\ pc_c = "exit_join"
  /\ Terminated
  /\ app_state' = "main_menu"
  /\ pc_c' = "ready"
  /\ UNCHANGED <<engineVars, cmdVars, memVars, fsVars, app_lo, app_lang, app_progress, histVars, sessVars, flag_taps, temp_dir>>

\* LanguageAppliance.quit lines 797-799 (pygame.QUIT): stop(), no resume().
Quit ==
  /\ pc_c = "ready"
  /\ stopped' = (stopped \/ pc # "idle")
  /\ stopInHold1' = (stopInHold1 \/ InHold1)
  /\ pc_c' = "quit_join"
  /\ UNCHANGED <<paused, skip_requested, skipSeen, skipEpoch, latePlay, toggle, sessVars, flag_taps, temp_dir>>
  /\ ControlFrame

\* LanguageAppliance.quit lines 800-801: play_thread.join().
QuitJoin ==
  /\ pc_c = "quit_join"
  /\ pc = "idle" \/ Terminated
  /\ pc_c' = "quit"
  /\ UNCHANGED <<engineVars, cmdVars, memVars, fsVars, app_state, app_lo, app_lang, app_progress, histVars, sessVars, flag_taps, temp_dir>>

\* flag_current_object lines 532-533: flip the flag of self.current_lo.
flag_current_object ==
  /\ pc_c = "ready" /\ InSession
  /\ flag_taps < MaxFlagTaps
  /\ IF app_lo = NoLo
     THEN UNCHANGED <<flagged, pc_c, toggle, flag_taps>>
     ELSE /\ flagged' = [flagged EXCEPT ![app_lo] = ~@]
          /\ toggle' = app_lo
          /\ flag_taps' = flag_taps + 1
          /\ pc_c' = "f_open"
  /\ UNCHANGED <<engineVars, cmdVars, fsVars, app_state, app_lo, app_lang, app_progress>>
  /\ UNCHANGED <<learning_objects, times_played, last_played, times_incorrect, times_correct>>
  /\ UNCHANGED <<skipSeen, skipEpoch, stopInHold1, latePlay, sessVars, temp_dir>>

FlagFrame ==
  /\ UNCHANGED <<engineVars, cmdVars, memVars, app_state, app_lo, app_lang, app_progress>>
  /\ UNCHANGED <<skipSeen, skipEpoch, stopInHold1, latePlay>>

\* flag_current_object line 534: self.current_lo is read again for the
\* arguments of update_learning_object_metadata.
FlagOpen ==
  /\ pc_c = "f_open"
  /\ \/ UpdOpenOk("C", app_lo) /\ pc_c' = "f_copy"
     \/ UpdOpenBad("C", app_lo) /\ pc_c' = "crashed"
  /\ UNCHANGED <<toggle, sessVars, flag_taps, temp_dir>>
  /\ FlagFrame

FlagCopy ==
  /\ pc_c = "f_copy"
  /\ \/ UpdCopyOk("C") /\ pc_c' = "f_meta"
     \/ UpdCopyFail("C") /\ pc_c' = "crashed"
  /\ UNCHANGED <<toggle, sessVars, flag_taps, temp_dir>>
  /\ FlagFrame

FlagMeta ==
  /\ pc_c = "f_meta"
  /\ UpdMeta("C")
  /\ pc_c' = "f_replace"
  /\ UNCHANGED <<toggle, sessVars, flag_taps, temp_dir>>
  /\ FlagFrame

FlagReplace ==
  /\ pc_c = "f_replace"
  /\ \/ UpdReplaceOk("C") /\ pc_c' = "ready"
     \/ UpdReplaceMissing("C") /\ pc_c' = "crashed"
  /\ UNCHANGED <<toggle, sessVars, flag_taps, temp_dir>>
  /\ FlagFrame

\* handle_submenu_touch lines 706-709: Normal Mode and Chinese First Mode
\* (start_normal_mode line 545, start_chinese_first_mode line 554).
start_mode(m) == launch_learning(m) /\ started_by' = m

Control ==
  \/ \E m \in Modes : start_mode(m)
  \/ PauseResume \/ Skip \/ ExitPress \/ ExitJoin \/ Quit \/ QuitJoin
  \/ flag_current_object \/ FlagOpen \/ FlagCopy \/ FlagMeta \/ FlagReplace

\* ---- the settings screen ----------------------------------------------

SettingsFrame ==
  /\ UNCHANGED <<engineVars, cmdVars, memVars, fsVars>>
  /\ UNCHANGED <<app_lo, app_lang, app_progress, histVars, started_by>>
  /\ UNCHANGED <<flag_taps, temp_dir>>

\* show_settings lines 803-804, the main menu's Settings button.
show_settings ==
  /\ pc_c = "ready" /\ app_state = "main_menu"
  /\ app_state' = "settings"
  /\ UNCHANGED <<pc_c, settings, settings_file>>
  /\ SettingsFrame

\* modes.index(...) of cycle_picker line 202, from 1.
ModeIndex(name) == CHOOSE i \in DOMAIN PickerModes : PickerModes[i] = name

\* handle_touch lines 736-737, cycle_picker lines 200-203: the next name of
\* modes; save() follows.
cycle_picker ==
  /\ pc_c = "ready" /\ app_state = "settings"
  /\ settings' = [settings EXCEPT !.picker_mode =
                    PickerModes[(ModeIndex(@) % Len(PickerModes)) + 1]]
  /\ pc_c' = "s_save"
  /\ UNCHANGED <<app_state, settings_file>>
  /\ SettingsFrame

\* handle_touch lines 738-745: the keys of rows 1 and 2 with the value
\* above which the handler sets them back to 1.
AdjustRows == {"instruction_delay", "quiz_interval"}
WrapAbove(key) == IF key = "instruction_delay" THEN 20 ELSE 59
AdjustPc(key) == IF key = "instruction_delay" THEN "s_adj_instr" ELSE "s_adj_quiz"

\* adjust lines 205-206 with delta 1: max(minimum, min(maximum, value + 1));
\* save() follows.
adjust(key) ==
  /\ pc_c = "ready" /\ app_state = "settings"
  /\ settings' = [settings EXCEPT ![key] =
                    LET v == IF @ + 1 < 60 THEN @ + 1 ELSE 60
                    IN  IF v > 1 THEN v ELSE 1]
  /\ pc_c' = AdjustPc(key)
  /\ UNCHANGED <<app_state, settings_file>>
  /\ SettingsFrame

\* SettingsManager.save with nothing written.
save_nothing == settings_file

\* SettingsManager.save lines 196-198: json.dump(self.data, f): the content
\* of settings.json afterwards.
save == settings

\* adjust line 207: save(); then handle_touch lines 740-741 / 744-745: a
\* value above the row's limit is set to 1 (set line 210), whose save()
\* follows.
adjust_save(key) ==
  /\ pc_c = AdjustPc(key)
  /\ settings_file' = save
  /\ IF settings[key] > WrapAbove(key)
     THEN settings' = [settings EXCEPT ![key] = 1] /\ pc_c' = "s_save"
     ELSE UNCHANGED settings /\ pc_c' = "ready"
  /\ UNCHANGED app_state
  /\ SettingsFrame

\* handle_touch lines 746-748: show_native is flipped by set; save() follows.
toggle_show_native ==
  /\ pc_c = "ready" /\ app_state = "settings"
  /\ settings' = [settings EXCEPT !.show_native = ~@]
  /\ pc_c' = "s_save"
  /\ UNCHANGED <<app_state, settings_file>>
  /\ SettingsFrame

\* the save() that ends cycle_picker (line 203) and set (line 211).
settings_save ==
  /\ pc_c = "s_save"
  /\ settings_file' = save
  /\ pc_c' = "ready"
  /\ UNCHANGED <<app_state, settings>>
  /\ SettingsFrame

\* handle_touch lines 749-750: row 4, back to the main menu.
settings_back ==
  /\ pc_c = "ready" /\ app_state = "settings"
  /\ app_state' = "main_menu"
  /\ UNCHANGED <<pc_c, settings, settings_file>>
  /\ SettingsFrame

\* The settings screen alone.
SettingsNext ==
  \/ show_settings \/ cycle_picker \/ toggle_show_native
  \/ \E key \in AdjustRows : adjust(key) \/ adjust_save(key)
  \/ settings_save \/ settings_back

\* ---- specification ------------------------------------------------------

\* What the program's start leaves in every variable but the directory of
\* containers, the list and the statistics loaded from it, and the policy.
InitRest ==
  /\ pc = "idle" /\ phase = 1 /\ elapsed = 0 /\ current_lo = NoLo
  /\ has_instr = FALSE /\ mode = "normal" /\ exc = "none" /\ picks = 0
  /\ picked = [o \in Objs |-> 0]
  /\ playing = "none"
  /\ paused = FALSE /\ stopped = FALSE /\ skip_requested = FALSE
  /\ last_played = [o \in Objs |-> 0]
  /\ times_correct = [o \in Objs |-> 0]
  /\ flagged = [o \in Objs |-> FALSE]
  /\ tmp = [o \in Objs |-> NoFile]
  /\ wr = [t \in Threads |-> NoHandle]
  /\ pc_c = "ready" /\ app_state = "main_menu" /\ app_lo = NoLo
  /\ app_lang = "english" /\ app_progress = 0
  /\ skipSeen = FALSE /\ skipEpoch = 0
  /\ stopInHold1 = FALSE /\ latePlay = FALSE
  /\ toggle = NoLo /\ started_by = "none"
  \* SettingsManager.load: settings.json as the program wrote it
  /\ settings = defaults /\ settings_file = defaults
  /\ flag_taps = 0
  /\ temp_dir = {}

Init ==
  /\ InitRest
  /\ times_played = [o \in Objs |-> 0]
  /\ times_incorrect = [o \in Objs |-> 0]
  /\ picker_function = "Random" /\ index = 0
  \* the learning_objects directory: empty, or one container per object
  /\ \/ disk = [o \in Objs |-> NoFile]
     \/ \E last \in AssetChoices(NObjs) :
          disk = [o \in Objs |->
                    NewContainer(IF o = NObjs THEN last ELSE {INSTR, NATIVE},
                                 AuthoredLanguage(o))]
  /\ learning_objects = Listing(NObjs)

Next == Engine \/ Control

Spec == Init /\ [][Next]_vars

\* The engine thread keeps being scheduled while it has a step to take.
FairSpec == Spec /\ WF_vars(Engine)

\* ---- sessions one after another ---------------------------------------

\* play_thread.is_alive() (launch_learning line 582).
ThreadAlive == pc \notin {"idle", "done", "died"}

\* A start button of the submenu tapped after a session has ended
\* (start_normal_mode / start_chinese_first_mode, launch_learning): the
\* containers are loaded again into new record objects, a new engine and a
\* new thread are created. A container that cannot be loaded raises in the
\* control thread. (The submenu is open only in the main menu's state, so
\* the early return of lines 582-584 is never taken. The records of the
\* previous session that app.current_lo may still refer to are modelled by
\* the new records of the same container.)
start_again(m) ==
  /\ pc_c = "ready"
  /\ app_state = "main_menu"
  /\ pc # "idle" /\ ~ThreadAlive
  /\ IF \A o \in Objs : disk[o].exists => Load(o).ok
     THEN /\ learning_objects' = Listing(NObjs)
          /\ times_played' = [o \in Objs |-> Load(o).tp]
          /\ last_played' = [o \in Objs |-> Load(o).lp]
          /\ flagged' = [o \in Objs |-> Load(o).fl]
          /\ mode' = m
          /\ paused' = FALSE /\ stopped' = FALSE /\ skip_requested' = FALSE
          /\ current_lo' = NoLo
          /\ pc' = "loop" /\ exc' = "none"
          /\ picker_function' = get_picker /\ index' = SequentialPicker_init
          /\ picked' = [o \in Objs |-> 0]
          /\ app_state' = "learning"
          /\ stopInHold1' = FALSE /\ latePlay' = FALSE
          /\ UNCHANGED pc_c
     ELSE /\ pc_c' = "crashed"
          /\ UNCHANGED <<pc, current_lo, mode, exc, cmdVars>>
          /\ UNCHANGED <<learning_objects, times_played, last_played, flagged>>
          /\ UNCHANGED <<picker_function, index, picked>>
          /\ UNCHANGED <<app_state, stopInHold1, latePlay>>
  /\ UNCHANGED <<phase, elapsed, has_instr, playing, picks, times_incorrect, times_correct>>
  /\ UNCHANGED <<fsVars, app_lo, app_lang, app_progress, skipSeen, skipEpoch, toggle, setVars, flag_taps, temp_dir>>

\* The control surface without its Flag button: sessions are started,
\* paused, skipped through, left with Exit and started again.
start_mode_again(m) == start_again(m) /\ started_by' = m

\* handle_submenu_touch lines 710-711, start_pinyin_mode lines 556-564: the
\* containers of pinyin_practice are loaded (the model has one directory of
\* containers, listed by whichever button starts the session) and
\* launch_learning() is called without a mode: the engine's mode is "normal".
start_pinyin_mode ==
  /\ launch_learning("normal") \/ start_again("normal")
  /\ started_by' = "pinyin"

SessionControl ==
  \/ \E m \in Modes : start_mode(m)
  \/ start_pinyin_mode
  \/ PauseResume \/ Skip \/ ExitPress \/ ExitJoin \/ Quit \/ QuitJoin
  \/ \E m \in Modes : start_mode_again(m)

SessionNext == Engine \/ SessionControl

SessionSpec == Init /\ [][SessionNext]_vars

SettingsSpec == Init /\ [][SettingsNext]_vars

\* Sessions started, paused, left with Exit and started again, with the
\* picker of the settings screen cycled in between.
PolicyControl ==
  \/ \E m \in Modes : start_mode(m) \/ start_mode_again(m)
  \/ PauseResume \/ ExitPress \/ ExitJoin
  \/ show_settings \/ cycle_picker \/ settings_save \/ settings_back

PolicyNext == Engine \/ PolicyControl

PolicySpec == Init /\ [][PolicyNext]_vars

\* ---- the selection policies on their own --------------------------------

\* The lists that loading a directory can give: distinct records, at least
\* one, in any order.
Lists ==
  {los \in UNION {[1..n -> Objs] : n \in 1..NObjs} :
     \A i, j \in DOMAIN los : i # j => los[i] # los[j]}

\* The statistics of a container: counters from 0 (the records of no list
\* keep 0).
StatsOf(los) ==
  {f \in [Objs -> 0..MaxStat] : \A o \in Objs : o \notin Range(los) => f[o] = 0}

\* A policy constructed over a list of records with any statistics.
PickerInit ==
  /\ InitRest
  /\ disk = [o \in Objs |-> NoFile]
  /\ learning_objects \in Lists
  /\ times_played \in StatsOf(learning_objects)
  /\ times_incorrect \in StatsOf(learning_objects)
  /\ picker_function \in Range(PickerModes)
  /\ index = SequentialPicker_init

\* One call of the policy, as play_loop line 239 makes it.
PickCall ==
  /\ picks < MaxCalls
  /\ \E o \in Picked(learning_objects) :
       /\ current_lo' = o
       /\ picked' = IF picker_function = "Sequential"
                    THEN [picked EXCEPT ![o] = @ + 1] ELSE picked
  /\ index' = IF picker_function = "Sequential"
              THEN SequentialAdvance(learning_objects) ELSE index
  /\ picks' = picks + 1
  /\ UNCHANGED <<pc, phase, elapsed, has_instr, mode, playing, exc, picker_function>>
  /\ UNCHANGED <<cmdVars, memVars, fsVars, appVars, histVars, sessVars>>
  /\ UNCHANGED <<flag_taps, temp_dir>>

PickerSpec == PickerInit /\ [][PickCall]_vars

\* ---- claims ---------------------------------------------------------------

WbPcs == {"wb_open", "wb_copy", "wb_meta", "wb_replace"}
ItemPcs == {"extract", "ph_busy", "ph_spin", "ph_sleep",
            "h_chk", "h_spin", "h_sleep", "h_step", "finally"}
ControlIdle == pc_c \in {"ready", "exit_join", "quit_join", "quit"}

\* C1 (as claimed): once stop() has been invoked, the play loop eventually
\* exits and the engine thread ends, whether or not pause is asserted and
\* without resume() being called.
C1_StopLeadsToExit == stopped ~> Terminated

\* C2 (as claimed): a skip() is never lost: skip_requested is reset only
\* after a poll of the engine has found it set.
C2_SkipNeverLost == [][(skip_requested /\ ~skip_requested') => skipSeen]_vars

\* C2 (amended): the engine never clears stop or pause, and clears skip
\* only at line 245, at the start of an item; a skip or stop that is set
\* when the engine polls during a hold ends the hold at that poll, and one
\* that is set when it polls during audio ends the item.
C2_Latched ==
  [][ /\ (stopped /\ pc # "idle") => stopped'
      /\ (paused /\ ~paused') => pc_c = "ready"
      /\ (skip_requested /\ ~skip_requested') => pc = "clear"
      /\ (pc = "h_chk" /\ (skip_requested \/ stopped)
            /\ <<pc, elapsed>>' # <<pc, elapsed>>) => pc' = "finally"
      /\ (pc = "ph_busy" /\ (skip_requested \/ stopped) /\ pc' # pc)
            => pc' \in {"finally", "h_chk"} ]_vars

\* C2 witness: a skip issued during a hold has been found by the poll.
C2_Witness == skipSeen /\ pc = "finally" /\ app_lo = current_lo

\* C3 (as claimed): at every moment the container at the path of every
\* learning object is a complete container with all its entries.
C3_PathAlwaysComplete ==
  \A o \in Collection :
    /\ Readable(disk[o])
    /\ \E a \in AssetChoices(o) : disk[o].ents = a

\* C4 (as claimed): once a flag toggle has returned, a load of the toggled
\* object's path yields its toggled flagged value, from then on.
C4_ToggleDurable ==
  (toggle # NoLo /\ ControlIdle) =>
     (Load(toggle).ok /\ Load(toggle).fl = flagged[toggle])

\* C5 (as claimed): a flag toggle flips the flagged bit of the record the
\* engine is currently playing, and of no other record.
C5_TogglesCurrent ==
  [][\A o \in Objs : flagged'[o] # flagged[o] => o = current_lo]_vars

\* C6 (as claimed): when the extraction of native.mp3 fails, the iteration
\* is abandoned and the engine goes on to pick the next item.
C6_NativeFailureAbandonsItem ==
  [][(pc = "extract" /\ Readable(disk[current_lo])
        /\ NATIVE \notin disk[current_lo].ents /\ pc' # pc) => pc' = "loop"]_vars

\* C7 (as claimed): whether the write-back succeeds or fails, the engine
\* goes on with the next iteration of the loop.
C7_WriteBackFailureContinues ==
  [][(pc \in WbPcs /\ pc' \notin WbPcs) => pc' = "loop"]_vars

\* C8 (as claimed): when an iteration has ended (by completion, skip or
\* stop), the picked record's times_played is on disk.
C8_PlayPersisted ==
  (pc \in {"loop", "done"} /\ current_lo # NoLo) =>
     (Load(current_lo).ok /\ Load(current_lo).tp = times_played[current_lo])

C10_SkipOnlyCurrent ==
  /\ skipSeen => pc \in {"finally", "loop", "clear"} \cup WbPcs
  /\ (pc \in ItemPcs /\ skip_requested) => skipEpoch = picks

\* C10 witness: the skip found during item 1 is still set when item 2 has
\* been picked, just before line 245 clears it.
C10_Witness == skipSeen /\ skip_requested /\ pc = "clear" /\ picks = 2

\* C11: an iteration of play_loop that picks adds exactly 1 to times_played
\* of the picked record of the collection and stamps its last_played with
\* the time of the pick, later than any time read before; no other step of
\* the session changes any record's stats, and the list the engine picks
\* from keeps its members and their order.
C11_OnePlayPerIteration ==
  [][ /\ (picks' # picks) =>
            \E o \in Collection :
               /\ current_lo' = o
               /\ times_played' = [times_played EXCEPT ![o] = @ + 1]
               /\ last_played' = [last_played EXCEPT ![o] = picks']
               /\ last_played'[o] > picks
      /\ (picks' = picks /\ pc # "idle") =>
            UNCHANGED <<times_played, last_played>>
      /\ (pc # "idle") => learning_objects' = learning_objects ]_vars

\* C11 witness: two iterations have run; a record played once carries the
\* time of the second pick.
C11_Witness ==
  /\ picks = 2 /\ pc = "loop"
  /\ \E o \in Collection : times_played[o] = 1 /\ last_played[o] = 2

\* C12 (as claimed): whatever was saved, the metadata stored at the path of
\* a record keeps the language and the schema version it was authored with.
C12_RoundTripKeepsFields ==
  \A o \in Collection :
    Readable(disk[o]) =>
       /\ disk[o].md.lang = AuthoredLanguage(o)
       /\ disk[o].md.schema = CURRENT_SCHEMA_VERSION

\* C13 (as claimed): a save that has renamed its temporary container onto
\* the path leaves there a readable container with the same non-metadata
\* entries as before and one metadata entry.
C13_SaveKeepsEntries ==
  [][\A o \in Objs :
       (tmp[o].exists /\ ~tmp'[o].exists) =>
          (Readable(disk'[o]) /\ disk'[o].ents = disk[o].ents)]_vars

\* C14 (as claimed): no engine thread is ever started over an empty
\* collection.
C14_NoEngineOverEmpty == (pc # "idle") => (Collection # {})

\* C15 (as claimed): the engine thread and the control thread are never
\* both inside update_learning_object_metadata for the same path.
C15_OneWriterPerPath ==
  \A o \in Objs : ~(wr["E"].o = o /\ wr["C"].o = o)

\* C18 (as claimed): while the audio of a phase plays, the progress
\* callback has already handed the record being played and the phase name
\* to the control surface.
C18_CallbackAtPhaseStart ==
  (pc \in {"ph_busy", "ph_spin", "ph_sleep"}) =>
     (app_lo = current_lo /\ app_state = PhaseName(phase))

\* C17 (as claimed): while pause is asserted during a hold that is not
\* over, the hold's elapsed counter does not advance.
C17_PauseFreezesHold ==
  [][(paused /\ paused' /\ pc \in HoldPcs /\ elapsed < HoldLen(phase))
        => elapsed' = elapsed]_vars

\* C17 (amended): once the engine has found pause asserted at its poll, it
\* stays in the pause loop while pause is asserted: the counter, the phase
\* and the item stay as they are and no progress event is emitted; it
\* leaves the loop only after resume(), to continue the same hold from the
\* same count. With pause asserted the counter advances only by the one
\* step whose sleep had begun before the poll, and is reset only when the
\* hold is over.
C17_FrozenOncePolled ==
  [][ /\ (pc \in {"h_spin", "h_sleep"} /\ paused) =>
            /\ pc' \in {"h_spin", "h_sleep"}
            /\ UNCHANGED <<elapsed, phase, current_lo, app_lo, app_state, app_lang, app_progress>>
      /\ (pc \in {"h_spin", "h_sleep"} /\ pc' \notin {"h_spin", "h_sleep"}) =>
            /\ ~paused /\ pc' = "h_step"
            /\ UNCHANGED <<elapsed, phase, current_lo>>
      /\ (pc = "h_step" /\ pc' # pc) =>
            /\ pc' = "h_chk" /\ elapsed' = elapsed + 1
            /\ UNCHANGED <<phase, current_lo>>
      /\ (paused /\ pc \in HoldPcs /\ elapsed' # elapsed) =>
            \/ pc = "h_step"
            \/ pc = "h_chk" /\ elapsed >= HoldLen(phase) ]_vars

\* C17 witness: the engine is in the pause loop of a hold that has already
\* counted a step.
C17_Witness == paused /\ pc = "h_sleep" /\ elapsed = 1

\* The clip and the label C20 gives each phase.
C20_Clip(ph) ==
  IF mode = "chinese_first"
  THEN (IF ph = 1 THEN "native.mp3" ELSE "instruction.mp3")
  ELSE (IF ph = 1 THEN "instruction.mp3" ELSE "native.mp3")

C20_Label(ph) ==
  IF mode = "chinese_first"
  THEN (IF ph = 1 THEN "native" ELSE "english")
  ELSE (IF ph = 1 THEN "english" ELSE "native")

\* C20: the clip that plays in a phase is the one the session mode gives
\* that phase (native first in chinese_first mode, instruction first in
\* the other modes), and every progress event of Hold 1 carries the record,
\* "learning" and the first label, every event of Hold 2 "reviewing" and
\* the second label.
C20_PhaseOrder ==
  [][ /\ (pc' \in {"ph_busy", "ph_spin", "ph_sleep"}) =>
            playing' = C20_Clip(phase')
      /\ (pc = "h_step" /\ pc' # pc) =>
            /\ app_lo' = current_lo
            /\ app_state' = (IF phase = 1 THEN "learning" ELSE "reviewing")
            /\ app_lang' = C20_Label(phase) ]_vars

\* C20 witness: in chinese_first mode Hold 2 has reported progress after
\* the instruction clip was played second.
C20_Witness ==
  /\ mode = "chinese_first" /\ phase = 2 /\ pc = "h_chk" /\ elapsed = 1
  /\ playing = INSTR /\ app_state = "reviewing" /\ app_lang = "english"

C21_NoInstr ==
  /\ pc \in {"ph_busy", "ph_spin", "ph_sleep"} \cup HoldPcs
  /\ ~has_instr

\* C21: an item without instruction.mp3 is not aborted: the phase that
\* would play the instruction clip loads and plays nothing and is in its
\* hold at once, that hold ends only when its time is over (or on skip or
\* stop), and the native clip is played in its own phase.
C21_MissingInstruction ==
  [][ /\ (pc = "extract" /\ pc' # pc /\ Readable(disk[current_lo])
            /\ NATIVE \in disk[current_lo].ents
            /\ INSTR \notin disk[current_lo].ents) =>
               /\ pc' = (IF mode = "chinese_first" THEN "ph_busy" ELSE "h_chk")
               /\ phase' = 1 /\ elapsed' = 0
               /\ playing' = (IF mode = "chinese_first" THEN NATIVE ELSE playing)
      /\ (C21_NoInstr' /\ mode' # "chinese_first" /\ phase' = 1) =>
               (pc' \in HoldPcs /\ playing' = "none")
      /\ (C21_NoInstr' /\ mode' = "chinese_first" /\ phase' = 2) =>
               (pc' \in HoldPcs /\ playing' = NATIVE)
      /\ (C21_NoInstr /\ phase = 1 /\ phase' = 2) =>
               /\ elapsed >= HoldLen(1)
               /\ (mode # "chinese_first") => (pc' = "ph_busy" /\ playing' = NATIVE)
      /\ (C21_NoInstr /\ pc \in HoldPcs /\ pc' = "finally") =>
               (elapsed >= HoldLen(phase) \/ skip_requested \/ stopped) ]_vars

\* C21 witness: in normal mode an item without instruction.mp3 plays its
\* native clip in Phase 2, after a Hold 1 without audio.
C21_Witness ==
  /\ mode = "normal" /\ C21_NoInstr /\ phase = 2 /\ pc = "ph_busy"
  /\ playing = NATIVE

\* C22 (as claimed): in a session started with the Pinyin Practice button
\* Hold 1 lasts the configured instruction delay; in a session started with
\* another button it lasts max(2, seconds_per_char * len(native)); Hold 2
\* lasts the configured quiz interval.
C22_HoldDurations ==
  (pc \in HoldPcs) =>
     total_duration(phase) =
        IF phase = 2 THEN settings.quiz_interval
        ELSE IF started_by = "pinyin" THEN settings.instruction_delay
        ELSE IF NativeLen(current_lo) * seconds_per_char > 2
             THEN NativeLen(current_lo) * seconds_per_char ELSE 2

\* C23 (as claimed): the fraction carried by every progress event of a hold
\* lies in [0, 1], and when a hold has run to its end the last event
\* carried 0.
C23_FractionCountsDown ==
  /\ (pc \in HoldPcs /\ elapsed > 0) =>
        (app_progress >= 0 /\ app_progress <= HoldLen(phase))
  /\ (pc = "h_chk" /\ elapsed >= HoldLen(phase) /\ HoldLen(phase) > 0) =>
        app_progress = 0

\* C30: after the cleanup step of an iteration (the write-back follows it)
\* the temp folder holds only files extracted for the item just played, at
\* most two; at every moment it holds files of the current item and of the
\* one before it alone, at most four, whatever the number of iterations,
\* skipped ones included.
C30_ScratchBounded ==
  /\ \A f \in temp_dir : f[1] \in {picks - 1, picks}
  /\ Cardinality(temp_dir) <= 4
  /\ (pc \in WbPcs) =>
        /\ \A f \in temp_dir : f[1] = picks
        /\ Cardinality(temp_dir) <= 2

\* the second item has been skipped and cleaned up: its clips alone are left.
C30_Witness ==
  /\ picks = 2 /\ pc \in WbPcs /\ skipSeen
  /\ temp_dir # {} /\ temp_dir \subseteq {<<2, INSTR>>, <<2, NATIVE>>}

\* C29: whenever a mutation of the settings has ended, settings.json holds
\* the settings of memory in full; picker_mode is always one of Random,
\* Weighted, Sequential and changes only to the next of them in that order.
C29_SettingsPersisted ==
  [][ /\ (pc_c' = "ready") => (settings_file' = settings')
      /\ settings'.picker_mode \in {"Random", "Weighted", "Sequential"}
      /\ (settings'.picker_mode # settings.picker_mode) =>
            <<settings.picker_mode, settings'.picker_mode>> \in
               {<<"Random", "Weighted">>, <<"Weighted", "Sequential">>,
                <<"Sequential", "Random">>} ]_vars

\* every row has been used, the instruction delay has wrapped to 1.
C29_Witness ==
  /\ pc_c = "ready" /\ settings_file = settings
  /\ settings.picker_mode = "Sequential" /\ settings.instruction_delay = 1
  /\ settings.quiz_interval = 11 /\ ~settings.show_native

\* C25: the engine's policy is set only when a session starts, to the one
\* that settings.picker_mode names at that moment, with the cursor of a
\* Sequential policy at the first record; afterwards the policy stays, the
\* cursor moves only with a pick of a Sequential policy, and a change of
\* picker_mode touches neither.
C25_SessionStarts == pc \in {"idle", "done", "died"} /\ pc' = "loop"
C25_PolicyFixedAtStart ==
  [][ /\ C25_SessionStarts =>
            /\ picker_function' = settings.picker_mode
            /\ index' = 0
      /\ (picker_function' # picker_function) => C25_SessionStarts
      /\ (index' # index) =>
            \/ C25_SessionStarts
            \/ pc = "loop" /\ pc' = "clear" /\ picker_function = "Sequential"
      /\ (pc = "loop" /\ pc' = "clear" /\ picker_function = "Sequential"
            /\ index = 0) => current_lo' = learning_objects[1]
      /\ (settings' # settings) =>
            (picker_function' = picker_function /\ index' = index) ]_vars

\* a second session with a Sequential policy has made its first pick, after
\* a first Sequential session left its cursor past the first record.
C25_Witness ==
  /\ picker_function = "Sequential" /\ picks = 2 /\ pc = "clear"
  /\ index = 1 /\ current_lo = learning_objects[1]
  /\ times_played[learning_objects[1]] = 2

\* C24: the k-th call of a SequentialPicker returns the record at position
\* ((k - 1) mod N) + 1 of the list it was constructed over: the first N
\* calls return each record once in load order, the sequence has period N,
\* and the cursor stays within 0..N-1.
C24_SequentialCycles ==
  (picker_function = "Sequential") =>
     LET N == Len(learning_objects) IN
       /\ index \in 0..(N - 1)
       /\ index = picks % N
       /\ picks >= 1 => current_lo = learning_objects[((picks - 1) % N) + 1]

\* two full rounds over a list of all the records.
C24_Witness ==
  /\ picker_function = "Sequential" /\ Len(learning_objects) = NObjs
  /\ picks = 2 * NObjs /\ index = 0

\* C26: over a list of one record weighted_picker returns that record,
\* whatever its statistics.
C26_SingleRecord ==
  (picker_function = "Weighted" /\ Len(learning_objects) = 1) =>
     /\ weighted_picker(learning_objects) = {learning_objects[1]}
     /\ picks >= 1 => current_lo = learning_objects[1]

\* the only record, with counters that are not fresh, has been returned.
C26_Witness ==
  /\ picker_function = "Weighted" /\ Len(learning_objects) = 1 /\ picks >= 1
  /\ current_lo = learning_objects[1]
  /\ times_played[current_lo] = MaxStat /\ times_incorrect[current_lo] = 0

\* the statistics with the times_incorrect of record o doubled.
C27_Doubled(o) == [stats EXCEPT ![o].times_incorrect = 2 * @]
\* fraction a is greater than fraction b (denominators positive).
C27_Greater(a, b) == a[1] * b[2] > b[1] * a[2]
C27_FreshWeightIsOne ==
  \A o \in Objs : (times_played[o] = 0 /\ times_incorrect[o] = 0) =>
     weight(stats, o)[1] = weight(stats, o)[2]

\* C27 (as claimed): the weight of a fresh record is 1, and doubling the
\* times_incorrect of any record of any list strictly increases its
\* normalized probability.
C27_DoublingRaises ==
  /\ C27_FreshWeightIsOne
  /\ \A i \in DOMAIN learning_objects :
        C27_Greater(normalized(C27_Doubled(learning_objects[i]), learning_objects, i),
                    normalized(stats, learning_objects, i))

\* C27 (amended): the weight of a fresh record is 1; doubling a
\* times_incorrect of at least 1 strictly increases the record's normalized
\* probability in every list of at least two records; doubling 0, or
\* doubling in a list of one record, leaves the probability as it is.
C27_DoublingRaisesWhenPossible ==
  /\ C27_FreshWeightIsOne
  /\ \A i \in DOMAIN learning_objects :
       LET o == learning_objects[i]
           before == normalized(stats, learning_objects, i)
           after == normalized(C27_Doubled(o), learning_objects, i)
       IN  IF times_incorrect[o] >= 1 /\ Len(learning_objects) >= 2
           THEN C27_Greater(after, before)
           ELSE after[1] * before[2] = before[1] * after[2]

\* a list of two records, one with mistakes counted, one fresh.
C27_Witness ==
  /\ picker_function = "Weighted" /\ Len(learning_objects) >= 2
  /\ times_incorrect[learning_objects[1]] >= 1
  /\ times_played[learning_objects[1]] >= 1
  /\ times_incorrect[learning_objects[2]] = 0
  /\ picks >= 1

RECURSIVE C28_SumNormalized(_, _)
C28_SumNormalized(los, n) ==
  IF n = 0 THEN 0 ELSE normalized(stats, los, n)[1] + C28_SumNormalized(los, n - 1)

\* C28: every record of the list has a strictly positive weight, the
\* normalized weights sum to 1, and weighted_picker can return every record.
C28_NoStarvation ==
  /\ \A i \in DOMAIN learning_objects :
        /\ weight(stats, learning_objects[i])[1] > 0
        /\ weight(stats, learning_objects[i])[2] > 0
        /\ normalized(stats, learning_objects, i)[1] > 0
  /\ C28_SumNormalized(learning_objects, Len(learning_objects)) =
        normalized(stats, learning_objects, 1)[2]
  /\ weighted_picker(learning_objects) = Range(learning_objects)

\* the record with the smallest weight of its list has been returned.
C28_Witness ==
  /\ picker_function = "Weighted" /\ Len(learning_objects) >= 2 /\ picks >= 1
  /\ times_played[current_lo] = MaxStat /\ times_incorrect[current_lo] = 0
  /\ \A o \in Range(learning_objects) \ {current_lo} :
        times_played[o] = 0 /\ times_incorrect[o] = MaxStat

\* The stage of the item the engine is at: 0 picking the next item, 1 Phase
\* One, 2 Hold One, 3 Phase Two, 4 Hold Two, 5 the cleanup, 6 the
\* write-back, 7 no thread running.
C31_Stage ==
  CASE pc \in {"loop", "clear", "extract"} -> 0
    [] pc \in {"ph_busy", "ph_spin", "ph_sleep"} -> IF phase = 1 THEN 1 ELSE 3
    [] pc \in HoldPcs -> IF phase = 1 THEN 2 ELSE 4
    [] pc = "finally" -> 5
    [] pc \in WbPcs -> 6
    [] OTHER -> 7

\* the steps from one stage to the next (a phase without a clip is empty).
C31_Order ==
  {<<0, 1>>, <<0, 2>>, <<1, 2>>, <<2, 3>>, <<2, 4>>, <<3, 4>>, <<4, 5>>,
   <<5, 6>>, <<6, 0>>}

\* C31 (as claimed): while an item is neither skipped nor stopped the
\* engine leaves each stage for the next one only: picking, Phase One, Hold
\* One, Phase Two, Hold Two, write-back, and picks the next item only after
\* the write-back.
C31_PhasesInOrder ==
  [][ (C31_Stage # 7 /\ pc # "loop" /\ ~skip_requested /\ ~stopped
         /\ C31_Stage' # C31_Stage)
        => <<C31_Stage, C31_Stage'>> \in C31_Order ]_vars

\* C32: no step of the engine and no command makes a record's times_played
\* smaller or negative, in memory or in its container, and none changes its
\* times_correct or times_incorrect.
C32_CountersKept ==
  [][ \A o \in Objs :
        /\ times_played'[o] >= times_played[o] /\ times_played'[o] >= 0
        /\ times_correct'[o] = times_correct[o]
        /\ times_incorrect'[o] = times_incorrect[o]
        /\ (Readable(disk[o]) /\ Readable(disk'[o])) =>
              disk'[o].md.tp >= disk[o].md.tp ]_vars

\* a record has been played twice and flagged, and its container holds the
\* two plays.
C32_Witness ==
  \E o \in Objs :
    /\ times_played[o] = 2 /\ toggle = o
    /\ Readable(disk[o]) /\ disk[o].md.tp = 2

\* C33 (as claimed): when no call of update_learning_object_metadata is
\* under way (it has returned or raised), no zip_path + ".temp" file is left
\* on disk.
C33_TempRemoved ==
  (pc \notin WbPcs /\ pc_c \notin {"f_open", "f_copy", "f_meta", "f_replace"})
     => \A o \in Objs : ~tmp[o].exists

\* C34 (as claimed): the clip that is playing, and the second clip of an
\* item that is in its first half and neither skipped nor stopped, are in
\* the temp folder: no cleanup has removed a file in use.
C34_InUseKept ==
  /\ (pc \in {"ph_busy", "ph_spin", "ph_sleep"} /\ playing # "none") =>
        <<picks, playing>> \in temp_dir
  /\ (pc \in {"ph_busy", "ph_spin", "ph_sleep"} \cup HoldPcs /\ phase = 1
        /\ ~stopped /\ ~skip_requested /\ HasAudio(2, has_instr)) =>
        <<picks, PhaseAudio(2, has_instr)>> \in temp_dir
\* C35: while the policy of a session is Sequential, the numbers of times any
\* two records of the list have been picked in that session differ by at
\* most 1.
C35_SequentialEven ==
  (picker_function = "Sequential") =>
     \A a, b \in Range(learning_objects) : picked[a] - picked[b] <= 1

\* one call into the second round over a list of all the records: the first
\* record was picked twice, every other record once.
C35_Witness ==
  /\ picker_function = "Sequential" /\ Len(learning_objects) = NObjs
  /\ picks = NObjs + 1
  /\ picked[learning_objects[1]] = 2
  /\ \A i \in 2..NObjs : picked[learning_objects[i]] = 1
\* C36: when the Exit handler returns (resume, stop, cleanup, join), the
\* engine thread is not alive and the state is main_menu; from then on no
\* step changes the current record or the progress of the Control Surface,
\* and the state changes only when the settings screen is opened or a new
\* session is started, which finds no thread alive.
C36_ExitHandled ==
  [][ /\ (pc_c = "exit_join" /\ pc_c' = "ready") =>
            (~ThreadAlive' /\ app_state' = "main_menu")
      /\ (app_state = "main_menu" /\ pc # "idle") =>
            /\ app_lo' = app_lo /\ app_progress' = app_progress
            /\ (app_state' # "main_menu") =>
                  \/ app_state' = "settings" /\ pc' = pc
                  \/ ~ThreadAlive /\ pc' = "loop" /\ app_state' = "learning" ]_vars

\* Exit was tapped during Hold One, after the engine had reported progress
\* on a record, and its handler has returned to the menu.
C36_Witness ==
  /\ app_state = "main_menu" /\ pc_c = "ready" /\ pc = "done"
  /\ stopInHold1 /\ app_lo # NoLo /\ app_progress > 0
====
